---------------------------- MODULE Spec2Model ----------------------------
(* Research-agent pipeline: the record store (ResearchDatabase), the      *)
(* agents that write to it (Scout, Triage, Oracle, Sage, Architect,       *)
(* Adversary), the PipelineOrchestrator and the HTTP routes that call     *)
(* the agents.  One task is one in-flight invocation of an entry point;   *)
(* a task's pc is the await it is suspended at, and one action is the     *)
(* synchronous code that runs when that await resolves, up to the next    *)
(* await of the same invocation.  The operations are the commands of      *)
(* index.js and the routes that search, generate, validate and run the    *)
(* pipeline; the routes that edit or delete rows by hand are left out.    *)
EXTENDS Naturals, Sequences, FiniteSets

(***************************************************************************)
(* Bounds of the exploration.                                              *)
(***************************************************************************)
MaxTasks == 1
MaxDisc == 2
MaxHyp == 2
MaxVal == 2
MaxProj == 2
MaxRev == 2

(***************************************************************************)
(* Program constants.                                                      *)
(***************************************************************************)
NormLen == 100
LikeLen == 50
TopK == 5
RouteBatch == 20
GenerateBatch == 10
BatchSize == 10
TriageLimit == 50
StageLimit == 10

TaskIds == 1..MaxTasks

Min(a, b) == IF a < b THEN a ELSE b

(***************************************************************************)
(* Text: titles are short character sequences, so that the two title      *)
(* normalisations of the store (one in JavaScript, one in SQL) are         *)
(* computed character by character.                                        *)
(***************************************************************************)
Chars == {"G", "g", "a", "1", "-", " ", "."}

toLowerCase(c) == IF c = "G" THEN "g" ELSE c

IsAlnum(c) == c \in {"g", "a", "1"}

LowerSeq(s) == [i \in 1..Len(s) |-> toLowerCase(s[i])]

RECURSIVE Strip(_, _)
Strip(s, drop) ==
  IF s = <<>> THEN <<>>
  ELSE IF Head(s) \in drop THEN Strip(Tail(s), drop)
       ELSE <<Head(s)>> \o Strip(Tail(s), drop)

substring(s, n) == SubSeq(s, 1, Min(Len(s), n))

(* title.toLowerCase().replace(/[^a-z0-9]/g, '').substring(0, 100) *)
normalizedTitle(title) ==
  substring(Strip(LowerSeq(title), {c \in Chars : ~IsAlnum(c)}), NormLen)

(* REPLACE(REPLACE(LOWER(title), ' ', ''), '.', '') *)
sqlTitle(title) == Strip(LowerSeq(title), {" ", "."})

(* s LIKE '%p%' for a pattern p without wildcards *)
Like(s, p) ==
  \E i \in 0..Len(s) : i + Len(p) <= Len(s) /\ SubSeq(s, i + 1, i + Len(p)) = p

(***************************************************************************)
(* Values.                                                                 *)
(***************************************************************************)
NoId == 0
Null == "null"

Recommendations == {"pursue", "modify", "reject", "needs_more_research"}
Assessments == {"proceed", "revise", "pause", "abandon"}
(* a string the prompt's enumeration does not list *)
OutOfEnum == "other"

Priorities == {"high", "medium", "low"}

(* What a connector can return: source, external id, title; no id. *)
Item(src, ext, title) ==
  [id |-> NoId, source |-> src, external_id |-> ext, title |-> title]

Items == { Item("pubmed", "e1", <<"G", "-", "1">>),
           Item("semantic_scholar", "e2", <<"g", " ", "1">>),
           Item("semantic_scholar", "e3", <<"G", "-", "1">>),
           Item("pubmed", "e4", <<"a">>) }

(* the one paper the searches of a pipeline run find *)
RunItems == { Item("pubmed", "e1", <<"G", "-", "1">>) }

(* the providers each search asks, in the order the code asks them *)
QuerySources == <<"pubmed", "semantic_scholar", "clinical_trials">>
DomainSources == <<"pubmed", "semantic_scholar", "clinical_trials">>
EvidenceSources == <<"pubmed", "semantic_scholar">>

(* what each provider can find: the same paper at two providers, no trial *)
Catalogue(source) ==
  CASE source = "pubmed" -> { Item("pubmed", "e4", <<"a">>) }
    [] source = "semantic_scholar" -> { Item("semantic_scholar", "e5", <<"a">>) }
    [] OTHER -> {}

VARIABLES
  discoveries,   \* table discoveries, in rowid order; a row's id is its index
  hypotheses,    \* table hypotheses; a row's id is its index
  validations,   \* table validations, in rowid order
  projects,      \* table projects; a row's id is its index
  reviews,       \* table reviews, in rowid order
  tasks,         \* the in-flight invocations
  now,           \* Date.now(), in milliseconds
  lastRequest,   \* each connector instance's lastRequest
  sent,          \* each connector's outgoing requests: the times they left
  callers,       \* the in-flight rateLimitWait calls of each connector
  sessions,      \* server.js: the Map sessions, token -> {createdAt}
  answer,        \* the server's answer to the last request that bore a token
  conversationHistory,  \* the agent's conversationHistory
  chats,         \* the in-flight chat calls of the agent
  requests,      \* the messages of each request sent to the generative model
  activity,      \* table activity_log of the store's file, in rowid order
  instance,      \* database.js: the singleton of each process on the file
  getters        \* the getDatabase calls and what they were handed

(* the state outside the item store and the pipeline's invocations *)
Limiter == <<lastRequest, sent, callers>>
Web == <<sessions, answer>>
Agent == <<conversationHistory, chats, requests>>
Store == <<activity, instance, getters>>
aside == <<now, Limiter, Web, Agent, Store>>

vars == <<discoveries, hypotheses, validations, projects, reviews, tasks,
          now, lastRequest, sent, callers, sessions, answer,
          conversationHistory, chats, requests, activity, instance, getters>>

(***************************************************************************)
(* ResearchDatabase: each operator takes the table and returns the table   *)
(* after the statement.  A new row's uuid is modelled by the row's index.  *)
(***************************************************************************)

(* get(): the first of the matching rows, or no row *)
FirstRow(matching) ==
  IF matching = {} THEN NoId
  ELSE CHOOSE i \in matching : \A j \in matching : i <= j

(* a NULL relevance_score is the empty sequence, a score t is <<t>> *)
NoScore == <<>>

DiscoveryRow(d) ==
  [source |-> d.source, external_id |-> d.external_id, title |-> d.title,
   relevance_score |-> NoScore, priority |-> Null, processed |-> FALSE]

(* INSERT OR REPLACE INTO discoveries: a row with the same primary key is *)
(* replaced by the new row, whose processed column takes its default.     *)
InsertOrReplace(rows, id, row) ==
  IF id \in 1..Len(rows) THEN [rows EXCEPT ![id] = row] ELSE Append(rows, row)

(* insertDiscovery written as an upsert: a result whose provider id is    *)
(* already stored replaces the stored row                                  *)
insertDiscoveryUpsert(rows, d) ==
  LET byExternalId ==
        FirstRow({i \in 1..Len(rows) :
                    rows[i].external_id = d.external_id /\ rows[i].source = d.source})
      id == IF byExternalId # NoId THEN byExternalId ELSE Len(rows) + 1
  IN  [id |-> id, rows |-> InsertOrReplace(rows, id, DiscoveryRow(d))]

insertDiscovery(rows, d) ==
  LET byExternalId ==
        IF d.external_id # Null /\ d.source # Null
        THEN FirstRow({i \in 1..Len(rows) :
                    rows[i].external_id = d.external_id /\ rows[i].source = d.source})
        ELSE NoId
      pattern == substring(normalizedTitle(d.title), LikeLen)
      byTitle ==
        IF d.title # <<>>
        THEN FirstRow({i \in 1..Len(rows) : Like(sqlTitle(rows[i].title), pattern)})
        ELSE NoId
      id == IF d.id # NoId THEN d.id ELSE Len(rows) + 1
  IN  IF byExternalId # NoId THEN [id |-> byExternalId, rows |-> rows]
      ELSE IF byTitle # NoId THEN [id |-> byTitle, rows |-> rows]
      ELSE [id |-> id, rows |-> InsertOrReplace(rows, id, DiscoveryRow(d))]

markDiscoveryProcessed(rows, id) ==
  [i \in 1..Len(rows) |-> IF i = id THEN [rows[i] EXCEPT !.processed = TRUE] ELSE rows[i]]

(* ORDER BY relevance_score DESC over a list of ids: the highest score     *)
(* first, NULL scores last, equal scores in the order of the list          *)
RECURSIVE orderByScore(_, _)
orderByScore(rows, ids) ==
  LET key(i) == IF rows[i].relevance_score = NoScore THEN 0
                ELSE rows[i].relevance_score[1] + 1
  IN  IF ids = <<>> THEN <<>>
      ELSE LET best == CHOOSE k \in 1..Len(ids) :
                         /\ \A j \in 1..Len(ids) : key(ids[j]) <= key(ids[k])
                         /\ \A j \in 1..(k - 1) : key(ids[j]) < key(ids[k])
               rest == [j \in 1..(Len(ids) - 1) |-> IF j < best THEN ids[j] ELSE ids[j + 1]]
           IN  <<ids[best]>> \o orderByScore(rows, rest)

(* SELECT ... WHERE processed = 0 ORDER BY relevance_score DESC ... LIMIT n, *)
(* as a list of ids                                                        *)
getUnprocessedDiscoveries(rows, limit) ==
  substring(orderByScore(rows, SelectSeq([i \in 1..Len(rows) |-> i],
                                         LAMBDA i : ~rows[i].processed)), limit)

getDiscoveriesByPriority(rows, priority, limit) ==
  substring(orderByScore(rows, SelectSeq([i \in 1..Len(rows) |-> i],
                                         LAMBDA i : rows[i].priority = priority)), limit)

(* status takes the column default *)
insertHypothesis(rows, discovery_id) ==
  Append(rows, [discovery_id |-> discovery_id, status |-> "generated"])

updateHypothesisStatus(rows, id, status) ==
  [i \in 1..Len(rows) |-> IF i = id THEN [rows[i] EXCEPT !.status = status] ELSE rows[i]]

getHypothesis(rows, id) == IF id \in 1..Len(rows) THEN id ELSE NoId

getHypothesesByStatus(rows, status, limit) ==
  substring(SelectSeq([i \in 1..Len(rows) |-> i], LAMBDA i : rows[i].status = status), limit)

insertValidation(rows, hypothesis_id, recommendation) ==
  Append(rows, [hypothesis_id |-> hypothesis_id, recommendation |-> recommendation])

(* status takes the column default; basis is history: the recommendation  *)
(* of the validation designProject was called with.                        *)
insertProject(rows, hypothesis_id, basis) ==
  Append(rows, [hypothesis_id |-> hypothesis_id, status |-> "drafted", basis |-> basis])

updateProjectStatus(rows, id, status) ==
  [i \in 1..Len(rows) |-> IF i = id THEN [rows[i] EXCEPT !.status = status] ELSE rows[i]]

insertReview(rows, project_id, overall_assessment) ==
  Append(rows, [project_id |-> project_id, overall_assessment |-> overall_assessment])

(* SELECT * FROM validations WHERE hypothesis_id = ? through get(): the    *)
(* statement has no ORDER BY and the table no index on the column, the     *)
(* rows come in rowid order and get() takes the first                      *)
getValidationByHypothesis(rows, hypothesisId) ==
  FirstRow({i \in 1..Len(rows) : rows[i].hypothesis_id = hypothesisId})

(* SELECT * FROM reviews WHERE project_id = ? through get() *)
getReviewByProject(rows, projectId) ==
  FirstRow({i \in 1..Len(rows) : rows[i].project_id = projectId})

(***************************************************************************)
(* BaseAgent: the reply of the generative model and its parsing.           *)
(***************************************************************************)
Forms == {"fenced", "bare", "prose"}

(* JSON texts: one that does not parse, the literal null, and objects *)
MalformedBody == [json |-> "malformed"]
NullBody == [json |-> "null"]

(* chat() either throws or returns a text: a ```json fence around a body, *)
(* a body alone, or prose with neither.                                    *)
ChatResults(payloads) ==
  {[form |-> "throws", body |-> NullBody]}
    \cup [form : Forms, body : payloads \cup {MalformedBody, NullBody}]

(* the parsed value; NullBody stands for null *)
parseJsonResponse(response) ==
  IF response.form = "prose" THEN NullBody
  ELSE IF response.body = MalformedBody THEN NullBody
  ELSE response.body

Truthy(parsed) == parsed.json = "object"

(* Sage: the hypothesis status a recommendation is stored as *)
newStatus(recommendation) ==
  IF recommendation = "pursue" THEN "validated"
  ELSE IF recommendation = "reject" THEN "rejected"
  ELSE "validating"

(* statusMap with the entries of revise and pause exchanged *)
statusMapExchanged ==
  [a \in Assessments |->
     CASE a = "proceed" -> "approved"
       [] a = "revise" -> "paused"
       [] a = "pause" -> "revision_needed"
       [] a = "abandon" -> "rejected"]

(* Adversary: the project status an assessment is stored as *)
statusMap ==
  [a \in Assessments |->
     CASE a = "proceed" -> "approved"
       [] a = "revise" -> "revision_needed"
       [] a = "pause" -> "paused"
       [] a = "abandon" -> "rejected"]

reviewedStatus(overall_assessment) ==
  IF overall_assessment \in DOMAIN statusMap
  THEN statusMap[overall_assessment]
  ELSE "reviewed"

(* the callers' test before designProject *)
pursuable(recommendation) == recommendation \in {"pursue", "modify"}

(***************************************************************************)
(* Tasks.  A task holds the locals of one invocation: the batch of        *)
(* discoveries (found), the discoveries, hypotheses, validations and       *)
(* projects still to be processed (todoD, todoH, todoV, todoP, the head    *)
(* being the unit in progress) and the lists a stage has returned          *)
(* (allHyps, vals, projs, revs).                                           *)
(***************************************************************************)
CliKinds == {"fullRun", "stageTriage", "stageHypothesis", "stageValidation"}
ServerKinds == {"pipelineRoute", "generateRoute", "validateRoute"}

IdleTask ==
  [kind |-> "idle", last |-> "-", result |-> "-", pc |-> "-", found |-> <<>>, scored |-> <<>>, todoD |-> <<>>, allHyps |-> <<>>,
   todoH |-> <<>>, rec |-> Null, vals |-> <<>>, todoV |-> <<>>, proj |-> NoId,
   projs |-> <<>>, todoP |-> <<>>, revs |-> <<>>, pending |-> <<>>, results |-> <<>>,
   errors |-> <<>>]

Range(s) == {s[i] : i \in 1..Len(s)}

(* an invocation that has ended: what is left is its answer (HTTP 200 or  *)
(* 500, success true or false), for the validate route the :id of the      *)
(* request, and for a full run that succeeded the hypotheses, validations, *)
(* projects and reviews of the summary it returns ({success: false, error} *)
(* holds none)                                                             *)
Done(tk, result) ==
  LET summary == tk.kind = "fullRun" /\ result = "ok"
  IN  [IdleTask EXCEPT !.last = tk.kind, !.result = result,
                       !.todoH = IF tk.kind = "validateRoute" THEN tk.todoH ELSE <<>>,
                       !.allHyps = IF summary THEN tk.allHyps ELSE <<>>,
                       !.vals = IF summary THEN tk.vals ELSE <<>>,
                       !.projs = IF summary THEN tk.projs ELSE <<>>,
                       !.revs = IF summary THEN tk.revs ELSE <<>>]

(* what a continuation leaves: the task and the tables it may write *)
World(tk, disc, hyps) == [tk |-> tk, disc |-> disc, hyps |-> hyps]

RECURSIVE DropMissing(_, _)
DropMissing(list, n) ==
  IF list = <<>> THEN <<>>
  ELSE IF Head(list) \in 1..n THEN list
  ELSE DropMissing(Tail(list), n)

(* PipelineOrchestrator.runReviewStage, entered with the projects *)
runReviewStage(tk, disc, hyps) ==
  IF tk.projs = <<>> THEN World(Done(tk, "ok"), disc, hyps)
  ELSE World([tk EXCEPT !.pc = "rev_chat", !.todoP = tk.projs], disc, hyps)

(* runProjectDesignStage without its filter on the recommendation *)
runProjectDesignStageUnfiltered(tk, disc, hyps) ==
  IF tk.vals = <<>> THEN runReviewStage([tk EXCEPT !.projs = <<>>], disc, hyps)
  ELSE World([tk EXCEPT !.pc = "des_chat", !.todoV = tk.vals], disc, hyps)

(* PipelineOrchestrator.runProjectDesignStage, entered with the validations *)
runProjectDesignStage(tk, disc, hyps) ==
  LET todo == SelectSeq(tk.vals, LAMBDA v : pursuable(v.recommendation))
  IN  IF todo = <<>> THEN runReviewStage([tk EXCEPT !.projs = <<>>], disc, hyps)
      ELSE World([tk EXCEPT !.pc = "des_chat", !.todoV = todo], disc, hyps)

(* PipelineOrchestrator.runValidationStage, entered with the hypotheses *)
runValidationStage(tk, disc, hyps) ==
  IF tk.allHyps = <<>>
  THEN IF tk.kind = "fullRun"
       THEN runProjectDesignStage([tk EXCEPT !.vals = <<>>], disc, hyps)
       ELSE World(Done(tk, "ok"), disc, hyps)
  ELSE World([tk EXCEPT !.pc = "val_chat", !.todoH = tk.allHyps], disc, hyps)

(* PipelineOrchestrator.runHypothesisStage, entered with prioritized.high *)
runHypothesisStage(tk, high, disc, hyps) ==
  LET todo == DropMissing(high, Len(disc))
  IN  IF todo = <<>>
      THEN IF tk.kind = "fullRun"
           THEN runValidationStage([tk EXCEPT !.allHyps = <<>>], disc, hyps)
           ELSE World(Done(tk, "ok"), disc, hyps)
      ELSE World([tk EXCEPT !.pc = "gen_chat", !.todoD = todo], disc, hyps)

(* the routes' loop over highPriority.slice(0, 5): the next discovery *)
RouteNextDiscovery(tk, disc, hyps) ==
  LET rest == Tail(tk.todoD)
  IN  IF rest = <<>> THEN World(Done(tk, "ok"), disc, hyps)
      ELSE World([tk EXCEPT !.pc = "gen_chat", !.todoD = rest, !.todoH = <<>>,
                            !.todoV = <<>>, !.rec = Null, !.proj = NoId],
                 disc, hyps)

(* POST /api/pipeline: every hypothesis of the discovery is done *)
RouteDiscoveryDone(tk, disc, hyps) ==
  RouteNextDiscovery(tk, markDiscoveryProcessed(disc, Head(tk.todoD)), hyps)

(* POST /api/pipeline: the next hypothesis of the discovery *)
RouteNextHypothesis(tk, disc, hyps) ==
  LET rest == Tail(tk.todoH)
  IN  IF rest = <<>> THEN RouteDiscoveryDone(tk, disc, hyps)
      ELSE World([tk EXCEPT !.pc = "val_chat", !.todoH = rest, !.todoV = <<>>,
                            !.rec = Null, !.proj = NoId],
                 disc, hyps)

(* what each caller does when an agent call throws *)
Thrown(tk, disc, hyps) ==
  IF tk.kind = "pipelineRoute" /\ tk.pc # "score_chat"
  THEN RouteNextDiscovery(tk, disc, hyps)
  ELSE IF tk.kind = "generateRoute" /\ tk.pc # "score_chat"
  THEN RouteNextDiscovery(tk, disc, hyps)
  ELSE World(Done(tk, "error"), disc, hyps)

(* what each caller does with the hypotheses generateHypotheses returned *)
AfterGenerate(tk, newIds, disc, hyps) ==
  CASE tk.kind = "pipelineRoute" ->
         IF newIds = <<>> THEN RouteDiscoveryDone(tk, disc, hyps)
         ELSE World([tk EXCEPT !.pc = "val_chat", !.todoH = newIds], disc, hyps)
    [] tk.kind = "generateRoute" -> RouteNextDiscovery(tk, disc, hyps)
    [] OTHER ->
         LET disc1 == markDiscoveryProcessed(disc, Head(tk.todoD))
             tk1 == [tk EXCEPT !.allHyps = tk.allHyps \o newIds]
             rest == DropMissing(Tail(tk.todoD), Len(disc1))
         IN  IF rest # <<>>
             THEN World([tk1 EXCEPT !.todoD = rest], disc1, hyps)
             ELSE IF tk.kind = "fullRun"
             THEN runValidationStage([tk1 EXCEPT !.todoD = <<>>], disc1, hyps)
             ELSE World(Done(tk, "ok"), disc1, hyps)

(* AfterValidate with an orchestrator that starts the design stage as     *)
(* soon as one validation has returned                                     *)
AfterValidateEager(tk, rec, disc, hyps) ==
  LET h == Head(tk.todoH)
      planned == [tk EXCEPT !.pc = "des_chat", !.rec = Null,
                            !.todoV = <<[hypothesis |-> h, recommendation |-> rec]>>]
  IN  CASE tk.kind = "validateRoute" ->
             IF rec # Null /\ pursuable(rec) THEN World(planned, disc, hyps)
             ELSE World(Done(tk, "ok"), disc, updateHypothesisStatus(hyps, h, "validated"))
        [] tk.kind = "pipelineRoute" ->
             IF rec # Null /\ pursuable(rec) THEN World(planned, disc, hyps)
             ELSE RouteNextHypothesis(tk, disc, hyps)
        [] OTHER ->
             LET vals1 == IF rec # Null
                          THEN Append(tk.vals, [hypothesis |-> h, recommendation |-> rec])
                          ELSE tk.vals
                 tk1 == [tk EXCEPT !.vals = vals1, !.rec = Null]
             IN  IF tk.kind = "fullRun" THEN runProjectDesignStage(tk1, disc, hyps)
                 ELSE World(Done(tk, "ok"), disc, hyps)

(* what each caller does with the validation validateHypothesis returned  *)
(* (rec is its recommendation, Null when it returned null)                 *)
AfterValidate(tk, rec, disc, hyps) ==
  LET h == Head(tk.todoH)
      planned == [tk EXCEPT !.pc = "des_chat", !.rec = Null,
                            !.todoV = <<[hypothesis |-> h, recommendation |-> rec]>>]
  IN  CASE tk.kind = "validateRoute" ->
             IF rec # Null /\ pursuable(rec) THEN World(planned, disc, hyps)
             ELSE World(Done(tk, "ok"), disc, updateHypothesisStatus(hyps, h, "validated"))
        [] tk.kind = "pipelineRoute" ->
             IF rec # Null /\ pursuable(rec) THEN World(planned, disc, hyps)
             ELSE RouteNextHypothesis(tk, disc, hyps)
        [] OTHER ->
             LET vals1 == IF rec # Null
                          THEN Append(tk.vals, [hypothesis |-> h, recommendation |-> rec])
                          ELSE tk.vals
                 rest == Tail(tk.todoH)
                 tk1 == [tk EXCEPT !.vals = vals1, !.todoH = rest, !.rec = Null]
             IN  IF rest # <<>> THEN World([tk1 EXCEPT !.pc = "val_chat"], disc, hyps)
                 ELSE IF tk.kind = "fullRun" THEN runProjectDesignStage(tk1, disc, hyps)
                 ELSE World(Done(tk, "ok"), disc, hyps)

(* what each caller does with the project designProject returned (NoId    *)
(* when it returned null)                                                  *)
AfterDesign(tk, proj, disc, hyps) ==
  LET cur == Head(tk.todoV)
  IN  CASE tk.kind = "validateRoute" ->
             World(Done(tk, "ok"), disc,
                   updateHypothesisStatus(hyps, cur.hypothesis, "validated"))
        [] tk.kind = "pipelineRoute" -> RouteNextHypothesis(tk, disc, hyps)
        [] OTHER ->
             LET projs1 == IF proj # NoId
                           THEN Append(tk.projs, [hypothesis |-> cur.hypothesis, project |-> proj])
                           ELSE tk.projs
                 rest == Tail(tk.todoV)
                 tk1 == [tk EXCEPT !.projs = projs1, !.todoV = rest, !.proj = NoId]
             IN  IF rest # <<>> THEN World([tk1 EXCEPT !.pc = "des_chat"], disc, hyps)
                 ELSE runReviewStage(tk1, disc, hyps)

(* runReviewStage after reviewProject returned (reviewed: it returned a   *)
(* review, not null)                                                       *)
AfterReview(tk, reviewed, disc, hyps) ==
  LET rest == Tail(tk.todoP)
      tk1 == IF reviewed THEN [tk EXCEPT !.revs = Append(@, Head(tk.todoP))] ELSE tk
  IN  IF rest # <<>> THEN World([tk1 EXCEPT !.todoP = rest], disc, hyps)
      ELSE World(Done(tk1, "ok"), disc, hyps)

(***************************************************************************)
(* The replies the model can give to each agent's prompt.                  *)
(***************************************************************************)
ValidationPayloads ==
  [json : {"object"}, recommendation : Recommendations \cup {OutOfEnum}]

PlanPayloads == [json : {"object"}, title : {"plan"}]

ReviewPayloads ==
  [json : {"object"}, overall_assessment : Assessments \cup {OutOfEnum}]

(* the totals a reply gives: the ends of the three ranges of the prompt *)
Totals == {39, 40, 69, 70, 100}

(* the one total of the replies in the specification of the whole program *)
RunTotals == {70}

(* the scores array of a reply: total and priority are what the code reads *)
ScoreLists(totals) ==
  {s \in UNION {[1..k -> [discovery_id : 1..MaxDisc, total : totals, priority : Priorities]] :
                  k \in 0..MaxDisc} :
     \A i, j \in 1..Len(s) : i # j => s[i].discovery_id # s[j].discovery_id}

ScorePayloads(totals) ==
  [json : {"object"}, scores : ScoreLists(totals)] \cup [json : {"object"}, note : {"none"}]

HypothesisPayloads ==
  [json : {"object"}, hypotheses : 0..MaxHyp] \cup [json : {"object"}, note : {"none"}]

(* what the connectors return to one search, before deduplicateResults *)
ResultLists(items) ==
  {s \in UNION {[1..k -> items] : k \in 0..MaxDisc} :
     \A i, j \in 1..Len(s) : i # j => s[i] # s[j]}

(***************************************************************************)
(* Scout, Triage, Oracle.                                                  *)
(***************************************************************************)

(* APIManager.deduplicateResults: the first result of each normalised title *)
deduplicateResults(results) ==
  LET first(i) == \A j \in 1..(i - 1) :
                    normalizedTitle(results[j].title) # normalizedTitle(results[i].title)
      keep == {i \in 1..Len(results) : first(i)}
      RECURSIVE Pick(_)
      Pick(i) == IF i > Len(results) THEN <<>>
                 ELSE IF i \in keep THEN <<results[i]>> \o Pick(i + 1)
                 ELSE Pick(i + 1)
  IN  Pick(1)

(* ScoutAgent.searchDomain / searchQuery: store every result, in order;   *)
(* ids are the ids insertDiscovery returned                                *)
RECURSIVE storeResults(_, _)
storeResults(rows, results) ==
  IF results = <<>> THEN [ids |-> <<>>, rows |-> rows]
  ELSE LET one == insertDiscovery(rows, Head(results))
           more == storeResults(one.rows, Tail(results))
       IN  [ids |-> <<one.id>> \o more.ids, rows |-> more.rows]

(* if (parsed && parsed.scores): the scores the loop of scoreDiscoveries   *)
(* runs over                                                               *)
scoresOf(parsed) ==
  IF Truthy(parsed) /\ "scores" \in DOMAIN parsed THEN parsed.scores ELSE <<>>

(* scoreDiscoveries with an UPDATE that adds the total to the stored score *)
scoreDiscoveriesAdditive(rows, batch, scores) ==
  [i \in 1..Len(rows) |->
     IF i \in Range(batch) /\ \E k \in 1..Len(scores) : scores[k].discovery_id = i
     THEN LET k == CHOOSE k \in 1..Len(scores) : scores[k].discovery_id = i
              old == IF rows[i].relevance_score = NoScore THEN 0
                     ELSE rows[i].relevance_score[1]
          IN  [rows[i] EXCEPT !.relevance_score = <<old + scores[k].total>>,
                              !.priority = scores[k].priority]
     ELSE rows[i]]

(* TriageAgent.scoreDiscoveries: the UPDATEs for the scores of the batch *)
scoreDiscoveries(rows, batch, scores) ==
  [i \in 1..Len(rows) |->
     IF i \in Range(batch) /\ \E k \in 1..Len(scores) : scores[k].discovery_id = i
     THEN LET k == CHOOSE k \in 1..Len(scores) : scores[k].discovery_id = i
          IN  [rows[i] EXCEPT !.relevance_score = <<scores[k].total>>,
                              !.priority = scores[k].priority]
     ELSE rows[i]]

(* OracleAgent.generateHypotheses: one insert for each descriptor *)
RECURSIVE generateHypotheses(_, _, _)
generateHypotheses(rows, discovery_id, n) ==
  IF n = 0 THEN rows
  ELSE generateHypotheses(insertHypothesis(rows, discovery_id), discovery_id, n - 1)

idsOf(scores, wanted) ==
  LET sel == SelectSeq(scores, LAMBDA sc : sc.priority \in wanted)
  IN  [i \in 1..Len(sel) |-> sel[i].discovery_id]

(***************************************************************************)
(* The connectors' rate limiters (apis/pubmed.js, apis/semantic_scholar.js)*)
(***************************************************************************)
Connectors == {"pubmed", "semantic_scholar"}

PubMedRateLimitMs == 350
SemanticScholarRateLimitMs == 1000

RATE_LIMIT_MS(c) ==
  IF c = "pubmed" THEN PubMedRateLimitMs ELSE SemanticScholarRateLimitMs

(* the clock's grain, its reading at start-up and the end of the window *)
TickMs == 50
StartMs == 1000
MaxNowMs == 2000
MaxCallers == 2
MaxRequests == 3

CallerIds == 1..MaxCallers

(* a caller outside rateLimitWait *)
IdleCaller == [pc |-> "idle", wake |-> 0]

(***************************************************************************)
(* The dashboard's sessions (web/server.js)                                *)
(***************************************************************************)
DayMs == 86400000
HalfDayMs == DayMs \div 2
MaxDays == 3
MaxLogins == 2

(* Math.random().toString(36) + Date.now().toString(36): the time of the   *)
(* login and what tells apart the tokens issued in one millisecond         *)
Tokens == {<<StartMs + h * HalfDayMs, k>> : h \in 0..(2 * MaxDays), k \in 1..MaxLogins}
NoToken == <<>>

(* no request answered yet *)
NoAnswer == [route |-> "-", token |-> NoToken, ok |-> FALSE, at |-> 0]

(***************************************************************************)
(* The store's file and the processes that open it (db/database.js): the   *)
(* dashboard's server and a command of index.js, each with its singleton   *)
(* and the copy of the file that sql.js holds in memory.                   *)
(***************************************************************************)
Processes == {"server", "cli"}
MaxGetters == 3
MaxLog == 3

GetterIds == 1..MaxGetters

(* let instance = null *)
NoInstance == [created |-> FALSE, initialized |-> FALSE, inits |-> 0, db |-> <<>>]

(* new ResearchDatabase(dbPath): db null, initialized false *)
NewInstance == [created |-> TRUE, initialized |-> FALSE, inits |-> 0, db |-> <<>>]

(* a caller that has not called getDatabase *)
IdleGetter == [proc |-> "-", pc |-> "idle", ready |-> FALSE]

(***************************************************************************)
(* BaseAgent.chat on one agent of the registry (agents/architect.js)       *)
(***************************************************************************)
MaxChats == 2
MaxRequestsSent == 3
Units == {"u1", "u2"}

ChatIds == 1..MaxChats

(* no chat call in flight *)
IdleChat == [pc |-> "idle", unit |-> "-"]

(* the state after the modules are loaded: no request made yet *)
InitAside ==
  /\ now = StartMs
  /\ lastRequest = [c \in Connectors |-> 0]
  /\ sent = [c \in Connectors |-> <<>>]
  /\ callers = [c \in Connectors |-> [k \in CallerIds |-> IdleCaller]]
  /\ sessions = {}
  /\ answer = NoAnswer
  /\ conversationHistory = <<>>
  /\ chats = [k \in ChatIds |-> IdleChat]
  /\ requests = <<>>
  /\ activity = <<>>
  /\ instance = [p \in Processes |-> NoInstance]
  /\ getters = [g \in GetterIds |-> IdleGetter]

(***************************************************************************)
(* Initial state: the tables as schema.sql creates them, nothing in flight *)
(***************************************************************************)
Init ==
  /\ discoveries = <<>>
  /\ hypotheses = <<>>
  /\ validations = <<>>
  /\ projects = <<>>
  /\ reviews = <<>>
  /\ tasks = [t \in TaskIds |-> IdleTask]
  /\ InitAside

Idle(t) == tasks[t].kind = "idle"

(* a new invocation takes the first free task *)
Free(t) == Idle(t) /\ \A u \in 1..(t - 1) : ~Idle(u)

(* a command of index.js runs to its end with nothing else in flight *)
NoCli == \A t \in DOMAIN tasks : tasks[t].kind \notin CliKinds
AllIdle == \A t \in DOMAIN tasks : Idle(t)

(* a continuation's result becomes the next state *)
Apply(t, w) ==
  /\ tasks' = [tasks EXCEPT ![t] = w.tk]
  /\ discoveries' = w.disc
  /\ hypotheses' = w.hyps

(***************************************************************************)
(* Entry points.                                                           *)
(***************************************************************************)

(* index.js: runFullPipeline(options), up to the await of the search *)
StartFullRun(t) ==
  /\ AllIdle /\ Free(t)
  /\ tasks' = [tasks EXCEPT ![t] = [IdleTask EXCEPT !.kind = "fullRun", !.pc = "discovery"]]
  /\ UNCHANGED <<discoveries, hypotheses, validations, projects, reviews, aside>>

(* runDiscoveryStage: the search returns, Scout stores the results, and   *)
(* runTriageStage starts on them                                           *)
RunDiscovery(t) ==
  LET tk == tasks[t]
  IN  /\ tk.pc = "discovery"
      /\ \E results \in ResultLists(RunItems) :
           LET stored == storeResults(discoveries, deduplicateResults(results))
           IN  /\ Len(stored.rows) <= MaxDisc
               /\ IF stored.ids = <<>>
                  THEN Apply(t, runHypothesisStage(tk, <<>>, stored.rows, hypotheses))
                  ELSE Apply(t, World([tk EXCEPT !.pc = "score_chat", !.found = stored.ids],
                                      stored.rows, hypotheses))
      /\ UNCHANGED <<validations, projects, reviews, aside>>

(* ScoutAgent.searchQuery / searchDomain called on its own (index.js       *)
(* --stage discovery, POST /api/search, POST /api/run)                     *)
ScoutSearch(items) ==
  /\ NoCli
  /\ \E results \in ResultLists(items) :
       LET stored == storeResults(discoveries, deduplicateResults(results))
       IN  /\ Len(stored.rows) <= MaxDisc
           /\ discoveries' = stored.rows
  /\ UNCHANGED <<hypotheses, validations, projects, reviews, tasks, aside>>

(* what one provider's search does: it throws, or returns some of what it *)
(* can find                                                                *)
Outcomes(source) ==
  {[threw |-> TRUE, items |-> <<>>]}
    \cup {[threw |-> FALSE, items |-> found] : found \in ResultLists(Catalogue(source))}

(* the search of one provider with nothing catching its error *)
searchSourceUncaught(tk, o) ==
  [threw |-> o.threw,
   tk |-> [tk EXCEPT !.pending = Tail(@),
                     !.results = IF o.threw THEN @ ELSE @ \o o.items]]

(* APIManager.searchAll's try/catch around one provider, and one entry of  *)
(* searchDomain's Promise.allSettled: a failure is put aside, the results  *)
(* are appended                                                            *)
searchSource(tk, o) ==
  [threw |-> FALSE,
   tk |-> [tk EXCEPT !.pending = Tail(@),
                     !.results = IF o.threw THEN @ ELSE @ \o o.items,
                     !.errors = IF o.threw THEN Append(@, Head(tk.pending)) ELSE @]]

(* runFullPipeline with the search taken provider by provider: with a     *)
(* query ScoutAgent.searchQuery (searchAll), without one dailyScan         *)
(* (searchDomain)                                                          *)
StartFullRunSearch(t) ==
  /\ AllIdle /\ Free(t)
  /\ \E path \in {"search", "scan"} :
       tasks' = [tasks EXCEPT ![t] =
                   [IdleTask EXCEPT !.kind = "fullRun", !.pc = path,
                                    !.pending = IF path = "search" THEN QuerySources
                                                ELSE DomainSources]]
  /\ UNCHANGED <<discoveries, hypotheses, validations, projects, reviews, aside>>

(* POST /api/hypotheses/:id/validate, up to the first await of Sage's      *)
(* literature search                                                       *)
StartValidateEvidence(t) ==
  /\ NoCli
  /\ Free(t)
  /\ \E id \in 1..MaxHyp :
       /\ getHypothesis(hypotheses, id) # NoId
       /\ tasks' = [tasks EXCEPT ![t] =
                      [IdleTask EXCEPT !.kind = "validateRoute", !.pc = "evidence",
                                       !.todoH = <<id>>, !.pending = EvidenceSources]]
  /\ UNCHANGED <<discoveries, hypotheses, validations, projects, reviews, aside>>

(* one provider's search settles.  The searches of searchDomain run       *)
(* together and are read, in the order of the array, once all have         *)
(* settled; they are taken in that order.  After the last one the results  *)
(* are deduplicated and stored, and runDiscoveryStage hands on the results *)
(* alone; Sage's literature goes into the prompt alone.                    *)
SearchSource(t) ==
  LET tk == tasks[t]
  IN  /\ tk.pc \in {"search", "scan", "evidence"}
      /\ \E o \in Outcomes(Head(tk.pending)) :
           LET s == searchSource(tk, o)
               stored == storeResults(discoveries, deduplicateResults(s.tk.results))
               back == [s.tk EXCEPT !.pending = <<>>, !.results = <<>>, !.errors = <<>>]
           IN  IF tk.pc = "evidence"
               THEN IF s.threw \/ s.tk.pending = <<>>
                    THEN Apply(t, World([back EXCEPT !.pc = "val_chat"], discoveries, hypotheses))
                    ELSE Apply(t, World(s.tk, discoveries, hypotheses))
               ELSE IF s.threw THEN Apply(t, Thrown(tk, discoveries, hypotheses))
               ELSE IF s.tk.pending # <<>> THEN Apply(t, World(s.tk, discoveries, hypotheses))
               ELSE /\ Len(stored.rows) <= MaxDisc
                    /\ IF stored.ids = <<>>
                       THEN Apply(t, runHypothesisStage(back, <<>>, stored.rows, hypotheses))
                       ELSE Apply(t, World([back EXCEPT !.pc = "score_chat",
                                                        !.found = stored.ids],
                                           stored.rows, hypotheses))
      /\ UNCHANGED <<validations, projects, reviews, aside>>

(* index.js --stage triage *)
StartStageTriage(t) ==
  LET batch == getUnprocessedDiscoveries(discoveries, TriageLimit)
  IN  /\ AllIdle /\ Free(t)
      /\ batch # <<>>
      /\ tasks' = [tasks EXCEPT ![t] =
                     [IdleTask EXCEPT !.kind = "stageTriage", !.pc = "score_chat", !.found = batch]]
      /\ UNCHANGED <<discoveries, hypotheses, validations, projects, reviews, aside>>

(* index.js --stage hypothesis *)
StartStageHypothesis(t) ==
  LET high == getDiscoveriesByPriority(discoveries, "high", StageLimit)
  IN  /\ AllIdle /\ Free(t)
      /\ high # <<>>
      /\ Apply(t, runHypothesisStage([IdleTask EXCEPT !.kind = "stageHypothesis"],
                                     high, discoveries, hypotheses))
      /\ UNCHANGED <<validations, projects, reviews, aside>>

(* index.js --stage validation *)
StartStageValidation(t) ==
  LET generated == getHypothesesByStatus(hypotheses, "generated", StageLimit)
  IN  /\ AllIdle /\ Free(t)
      /\ generated # <<>>
      /\ Apply(t, runValidationStage([IdleTask EXCEPT !.kind = "stageValidation",
                                                      !.allHyps = generated],
                                     discoveries, hypotheses))
      /\ UNCHANGED <<validations, projects, reviews, aside>>

(* the rows a route's SELECT ... processed = 0 ORDER BY created_at DESC    *)
(* LIMIT n returns                                                         *)
newestUnprocessed(rows, limit) ==
  LET ids == SelectSeq([i \in 1..Len(rows) |-> i], LAMBDA i : ~rows[i].processed)
  IN  substring([i \in 1..Len(ids) |-> ids[Len(ids) + 1 - i]], limit)

(* POST /api/pipeline, up to the await of scoreDiscoveries: the batch is   *)
(* the discoveries named in the request, or the newest unprocessed ones    *)
StartPipelineRoute(t) ==
  /\ NoCli
  /\ Free(t)
  /\ \E batch \in {newestUnprocessed(discoveries, RouteBatch)}
                    \cup {<<i>> : i \in 1..Len(discoveries)} :
       /\ batch # <<>>
       /\ tasks' = [tasks EXCEPT ![t] =
                      [IdleTask EXCEPT !.kind = "pipelineRoute", !.pc = "score_chat",
                                       !.found = batch]]
  /\ UNCHANGED <<discoveries, hypotheses, validations, projects, reviews, aside>>

(* POST /api/hypotheses/generate, up to the await of scoreDiscoveries *)
StartGenerateRoute(t) ==
  /\ NoCli
  /\ Free(t)
  /\ \E batch \in {newestUnprocessed(discoveries, GenerateBatch)}
                    \cup {<<i>> : i \in 1..Len(discoveries)} :
       /\ batch # <<>>
       /\ tasks' = [tasks EXCEPT ![t] =
                      [IdleTask EXCEPT !.kind = "generateRoute", !.pc = "score_chat",
                                       !.found = batch]]
  /\ UNCHANGED <<discoveries, hypotheses, validations, projects, reviews, aside>>

(* POST /api/hypotheses/:id/validate, up to the await of the chat *)
StartValidateRoute(t) ==
  /\ NoCli
  /\ Free(t)
  /\ \E id \in 1..MaxHyp :
       /\ getHypothesis(hypotheses, id) # NoId
       /\ tasks' = [tasks EXCEPT ![t] =
                      [IdleTask EXCEPT !.kind = "validateRoute", !.pc = "val_chat",
                                       !.todoH = <<id>>]]
  /\ UNCHANGED <<discoveries, hypotheses, validations, projects, reviews, aside>>

(***************************************************************************)
(* Agent calls: each action is the code that runs when the chat returns.   *)
(***************************************************************************)

(* TriageAgent.scoreDiscoveries returns to runTriageStage or to a route *)
ScoreChat(t, totals) ==
  LET tk == tasks[t]
      batch == IF tk.kind \in ServerKinds THEN tk.found ELSE substring(tk.found, BatchSize)
      later == IF tk.kind \in ServerKinds THEN <<>>
               ELSE SubSeq(tk.found, Len(batch) + 1, Len(tk.found))
  IN  /\ tk.pc = "score_chat"
      /\ \E r \in ChatResults(ScorePayloads(totals)) :
           LET parsed == parseJsonResponse(r)
               scores == scoresOf(parsed)
               disc1 == scoreDiscoveries(discoveries, batch, scores)
               all == tk.scored \o scores
               wanted == SelectSeq(substring(idsOf(all, {"high", "medium"}), TopK),
                                   LAMBDA id : id \in Range(tk.found))
           IN  IF r.form = "throws" THEN Apply(t, Thrown(tk, discoveries, hypotheses))
               ELSE IF tk.kind \in ServerKinds
               THEN IF wanted = <<>> THEN Apply(t, World(Done(tk, "ok"), disc1, hypotheses))
                    ELSE Apply(t, World([tk EXCEPT !.pc = "gen_chat", !.todoD = wanted],
                                        disc1, hypotheses))
               ELSE IF later # <<>>
               THEN Apply(t, World([tk EXCEPT !.found = later, !.scored = all],
                                   disc1, hypotheses))
               ELSE IF tk.kind = "fullRun"
               THEN Apply(t, runHypothesisStage([tk EXCEPT !.found = <<>>, !.scored = <<>>],
                                                idsOf(all, {"high"}), disc1, hypotheses))
               ELSE Apply(t, World(Done(tk, "ok"), disc1, hypotheses))
      /\ UNCHANGED <<validations, projects, reviews, aside>>

(* OracleAgent.generateHypotheses returns to its caller *)
GenerateChat(t) ==
  LET tk == tasks[t]
      d == Head(tk.todoD)
  IN  /\ tk.pc = "gen_chat"
      /\ \E r \in ChatResults(HypothesisPayloads) :
           LET parsed == parseJsonResponse(r)
               n == IF Truthy(parsed) /\ "hypotheses" \in DOMAIN parsed
                    THEN parsed.hypotheses ELSE 0
               hyps1 == generateHypotheses(hypotheses, d, n)
               newIds == [i \in 1..n |-> Len(hypotheses) + i]
           IN  IF r.form = "throws" THEN Apply(t, Thrown(tk, discoveries, hypotheses))
               ELSE /\ Len(hyps1) <= MaxHyp
                    /\ Apply(t, AfterGenerate(tk, newIds, discoveries, hyps1))
      /\ UNCHANGED <<validations, projects, reviews, aside>>

(* validateHypothesis with a catch around the chat that marks the         *)
(* hypothesis rejected before it rethrows                                  *)
validateHypothesisCatching(hyps, vals, h, r) ==
  LET parsed == parseJsonResponse(r)
  IN  IF r.form = "throws"
      THEN [threw |-> TRUE, rec |-> Null,
            hyps |-> updateHypothesisStatus(hyps, h, "rejected"), vals |-> vals]
      ELSE IF ~Truthy(parsed)
      THEN [threw |-> FALSE, rec |-> Null, hyps |-> hyps, vals |-> vals]
      ELSE [threw |-> FALSE, rec |-> parsed.recommendation,
            hyps |-> updateHypothesisStatus(hyps, h, newStatus(parsed.recommendation)),
            vals |-> insertValidation(vals, h, parsed.recommendation)]

(* SageAgent.validateHypothesis, lines 71-90: what the reply r of the     *)
(* chat does to the tables; rec is the recommendation of the validation    *)
(* it persisted, Null when it persisted none                               *)
validateHypothesis(hyps, vals, h, r) ==
  LET parsed == parseJsonResponse(r)
  IN  IF r.form = "throws"
      THEN [threw |-> TRUE, rec |-> Null, hyps |-> hyps, vals |-> vals]
      ELSE IF ~Truthy(parsed)
      THEN [threw |-> FALSE, rec |-> Null, hyps |-> hyps, vals |-> vals]
      ELSE [threw |-> FALSE, rec |-> parsed.recommendation,
            hyps |-> updateHypothesisStatus(hyps, h, newStatus(parsed.recommendation)),
            vals |-> insertValidation(vals, h, parsed.recommendation)]

(* designProject leaving the hypothesis's status as it was *)
designProjectKeepingStatus(hyps, projs, v, r) ==
  LET parsed == parseJsonResponse(r)
  IN  IF r.form = "throws"
      THEN [threw |-> TRUE, proj |-> NoId, hyps |-> hyps, projs |-> projs]
      ELSE IF ~Truthy(parsed)
      THEN [threw |-> FALSE, proj |-> NoId, hyps |-> hyps, projs |-> projs]
      ELSE [threw |-> FALSE, proj |-> Len(projs) + 1,
            hyps |-> hyps,
            projs |-> insertProject(projs, v.hypothesis, v.recommendation)]

(* ArchitectAgent.designProject, lines 63-82, called with the validation v *)
designProject(hyps, projs, v, r) ==
  LET parsed == parseJsonResponse(r)
  IN  IF r.form = "throws"
      THEN [threw |-> TRUE, proj |-> NoId, hyps |-> hyps, projs |-> projs]
      ELSE IF ~Truthy(parsed)
      THEN [threw |-> FALSE, proj |-> NoId, hyps |-> hyps, projs |-> projs]
      ELSE [threw |-> FALSE, proj |-> Len(projs) + 1,
            hyps |-> updateHypothesisStatus(hyps, v.hypothesis, "project"),
            projs |-> insertProject(projs, v.hypothesis, v.recommendation)]

(* AdversaryAgent.reviewProject, lines 61-83 *)
reviewProject(projs, revs, p, r) ==
  LET parsed == parseJsonResponse(r)
  IN  IF r.form = "throws"
      THEN [threw |-> TRUE, reviewed |-> FALSE, projs |-> projs, revs |-> revs]
      ELSE IF ~Truthy(parsed)
      THEN [threw |-> FALSE, reviewed |-> FALSE, projs |-> projs, revs |-> revs]
      ELSE [threw |-> FALSE, reviewed |-> TRUE,
            projs |-> updateProjectStatus(projs, p, reviewedStatus(parsed.overall_assessment)),
            revs |-> insertReview(revs, p, parsed.overall_assessment)]

(* validateHypothesis from the chat's return to the await of              *)
(* vectorStore.addValidation, or to its caller when it persisted nothing   *)
ValidateChat(t) ==
  LET tk == tasks[t]
  IN  /\ tk.pc = "val_chat"
      /\ \E r \in ChatResults(ValidationPayloads) :
           LET out == validateHypothesis(hypotheses, validations, Head(tk.todoH), r)
           IN  /\ Len(out.vals) <= MaxVal
               /\ validations' = out.vals
               /\ IF out.threw THEN Apply(t, Thrown(tk, discoveries, out.hyps))
                  ELSE IF out.rec = Null
                  THEN Apply(t, AfterValidate(tk, Null, discoveries, out.hyps))
                  ELSE Apply(t, World([tk EXCEPT !.pc = "val_vs", !.rec = out.rec],
                                      discoveries, out.hyps))
      /\ UNCHANGED <<projects, reviews, aside>>

(* validateHypothesis returns the validation to its caller *)
ValidateStored(t) ==
  LET tk == tasks[t]
  IN  /\ tk.pc = "val_vs"
      /\ Apply(t, AfterValidate(tk, tk.rec, discoveries, hypotheses))
      /\ UNCHANGED <<validations, projects, reviews, aside>>

(* designProject from the chat's return to the await of                   *)
(* vectorStore.addProject, or to its caller when it persisted nothing      *)
DesignChat(t) ==
  LET tk == tasks[t]
  IN  /\ tk.pc = "des_chat"
      /\ \E r \in ChatResults(PlanPayloads) :
           LET out == designProject(hypotheses, projects, Head(tk.todoV), r)
           IN  /\ Len(out.projs) <= MaxProj
               /\ projects' = out.projs
               /\ IF out.threw THEN Apply(t, Thrown(tk, discoveries, out.hyps))
                  ELSE IF out.proj = NoId
                  THEN Apply(t, AfterDesign(tk, NoId, discoveries, out.hyps))
                  ELSE Apply(t, World([tk EXCEPT !.pc = "des_vs", !.proj = out.proj],
                                      discoveries, out.hyps))
      /\ UNCHANGED <<validations, reviews, aside>>

(* designProject returns the project to its caller *)
DesignStored(t) ==
  LET tk == tasks[t]
  IN  /\ tk.pc = "des_vs"
      /\ Apply(t, AfterDesign(tk, tk.proj, discoveries, hypotheses))
      /\ UNCHANGED <<validations, projects, reviews, aside>>

(* reviewProject, from the chat's return to its caller *)
ReviewChat(t) ==
  LET tk == tasks[t]
  IN  /\ tk.pc = "rev_chat"
      /\ \E r \in ChatResults(ReviewPayloads) :
           LET out == reviewProject(projects, reviews, Head(tk.todoP).project, r)
           IN  /\ Len(out.revs) <= MaxRev
               /\ projects' = out.projs
               /\ reviews' = out.revs
               /\ IF out.threw THEN Apply(t, Thrown(tk, discoveries, hypotheses))
                  ELSE Apply(t, AfterReview(tk, out.reviewed, discoveries, hypotheses))
      /\ UNCHANGED <<validations, aside>>

Next ==
  \/ ScoutSearch(RunItems)
  \/ \E t \in TaskIds :
       \/ StartFullRun(t)
       \/ RunDiscovery(t)
       \/ StartStageTriage(t)
       \/ StartStageHypothesis(t)
       \/ StartStageValidation(t)
       \/ StartPipelineRoute(t)
       \/ StartGenerateRoute(t)
       \/ StartValidateRoute(t)
       \/ ScoreChat(t, RunTotals)
       \/ GenerateChat(t)
       \/ ValidateChat(t)
       \/ ValidateStored(t)
       \/ DesignChat(t)
       \/ DesignStored(t)
       \/ ReviewChat(t)

Spec == Init /\ [][Next]_vars

(* The discovery and triage commands alone, over search results that share *)
(* titles across providers.                                                *)
NextDiscovery ==
  \/ ScoutSearch(Items)
  \/ \E t \in TaskIds :
       \/ StartStageTriage(t)
       \/ StartStageHypothesis(t)
       \/ ScoreChat(t, RunTotals)
       \/ GenerateChat(t)

SpecDiscovery == Init /\ [][NextDiscovery]_vars

(* The triage command alone, over two search results and replies whose    *)
(* totals lie at the ends of the three ranges.                             *)
ScoringItems == {Item("pubmed", "e1", <<"G", "-", "1">>), Item("pubmed", "e4", <<"a">>)}

NextScoring ==
  \/ ScoutSearch(ScoringItems)
  \/ \E t \in TaskIds :
       \/ StartStageTriage(t)
       \/ ScoreChat(t, Totals)

SpecScoring == Init /\ [][NextScoring]_vars

(* Full runs and the validate route with every provider's search a step of *)
(* its own, each of which may fail.                                        *)
NextConnectors ==
  \E t \in TaskIds :
    \/ StartFullRunSearch(t)
    \/ StartValidateEvidence(t)
    \/ SearchSource(t)
    \/ ScoreChat(t, RunTotals)
    \/ GenerateChat(t)
    \/ ValidateChat(t)
    \/ ValidateStored(t)
    \/ DesignChat(t)
    \/ DesignStored(t)
    \/ ReviewChat(t)

SpecConnectors == Init /\ [][NextConnectors]_vars

(* The validate route with requests in flight together, on a store that    *)
(* holds one discovery and the hypothesis generated from it.               *)
MaxOverlap == 2

InitOverlap ==
  /\ discoveries = <<[DiscoveryRow(Item("pubmed", "e1", <<"G", "-", "1">>))
                        EXCEPT !.relevance_score = <<70>>, !.priority = "high"]>>
  /\ hypotheses = insertHypothesis(<<>>, 1)
  /\ validations = <<>>
  /\ projects = <<>>
  /\ reviews = <<>>
  /\ tasks = [t \in 1..MaxOverlap |-> IdleTask]
  /\ InitAside

NextOverlap ==
  \E t \in 1..MaxOverlap :
    \/ StartValidateRoute(t)
    \/ ValidateChat(t)
    \/ ValidateStored(t)
    \/ DesignChat(t)
    \/ DesignStored(t)

SpecOverlap == InitOverlap /\ [][NextOverlap]_vars

(***************************************************************************)
(* rateLimitWait and the request that follows it.  The pipeline's tables   *)
(* and invocations are left alone: the limiter reads none of them.         *)
(***************************************************************************)
Pipeline == <<discoveries, hypotheses, validations, projects, reviews, tasks>>

(* this.lastRequest = Date.now(), then the caller's fetch leaves *)
requestLeaves(c, k) ==
  /\ lastRequest' = [lastRequest EXCEPT ![c] = now]
  /\ sent' = [sent EXCEPT ![c] = Append(@, now)]
  /\ callers' = [callers EXCEPT ![c][k] = IdleCaller]

(* rateLimitWait up to its await: the wait is computed from lastRequest,   *)
(* which stays as it is until the timer has fired                          *)
rateLimitWait(c, k) ==
  LET elapsed == now - lastRequest[c]
  IN  IF elapsed < RATE_LIMIT_MS(c)
      THEN /\ callers' = [callers EXCEPT ![c][k] =
                 [pc |-> "timer", wake |-> now + (RATE_LIMIT_MS(c) - elapsed)]]
           /\ UNCHANGED <<lastRequest, sent>>
      ELSE requestLeaves(c, k)

(* a search begins on connector c *)
RateLimitWait(c, k) ==
  /\ callers[c][k].pc = "idle"
  /\ Len(sent[c]) + Cardinality({j \in CallerIds : callers[c][j].pc = "timer"})
       < MaxRequests
  /\ rateLimitWait(c, k)
  /\ UNCHANGED <<now, Pipeline, Web, Agent, Store>>

(* setTimeout's callback: not before the delay has passed *)
TimerFires(c, k) ==
  /\ callers[c][k].pc = "timer"
  /\ now >= callers[c][k].wake
  /\ requestLeaves(c, k)
  /\ UNCHANGED <<now, Pipeline, Web, Agent, Store>>

(* time passes *)
Tick ==
  /\ now + TickMs <= MaxNowMs
  /\ now' = now + TickMs
  /\ UNCHANGED <<Pipeline, Limiter, Web, Agent, Store>>

NextLimiter ==
  \/ \E c \in Connectors, k \in CallerIds : RateLimitWait(c, k)
  \/ \E c \in Connectors, k \in CallerIds : TimerFires(c, k)
  \/ Tick

SpecLimiter == Init /\ [][NextLimiter]_vars

(***************************************************************************)
(* The dashboard's login, its auth middleware and /api/auth/check          *)
(***************************************************************************)
has(token) == \E s \in sessions : s.token = token

(* POST /api/auth/login with the right password: the token is stored, the  *)
(* sessions created more than a day before this login are deleted          *)
Login ==
  LET issued == {s \in sessions : s.createdAt = now}
      token == <<now, Cardinality(issued) + 1>>
      dayAgo == now - DayMs
  IN  /\ Cardinality(issued) < MaxLogins
      /\ sessions' = {s \in sessions \cup {[token |-> token, createdAt |-> now]} :
                        ~(s.createdAt < dayAgo)}
      /\ answer' = [route |-> "login", token |-> token, ok |-> TRUE, at |-> now]
      /\ UNCHANGED <<now, Pipeline, Limiter, Agent, Store>>

(* POST /api/auth/login with another password: 401, nothing else *)
LoginRefused ==
  /\ answer' = [route |-> "login", token |-> NoToken, ok |-> FALSE, at |-> now]
  /\ UNCHANGED <<now, sessions, Pipeline, Limiter, Agent, Store>>

(* authMiddleware on a protected /api/ route: next() or 401 *)
authMiddleware(token) ==
  /\ answer' = [route |-> "api", token |-> token,
                ok |-> token # NoToken /\ has(token), at |-> now]
  /\ UNCHANGED <<now, sessions, Pipeline, Limiter, Agent, Store>>

(* GET /api/auth/check: {authenticated: ...} *)
AuthCheck(token) ==
  /\ answer' = [route |-> "check", token |-> token,
                ok |-> token # NoToken /\ has(token), at |-> now]
  /\ UNCHANGED <<now, sessions, Pipeline, Limiter, Agent, Store>>

(* half a day passes *)
TickHalfDay ==
  /\ now + HalfDayMs <= StartMs + MaxDays * DayMs
  /\ now' = now + HalfDayMs
  /\ UNCHANGED <<Pipeline, Limiter, Web, Agent, Store>>

NextSessions ==
  \/ Login
  \/ LoginRefused
  \/ \E token \in Tokens \cup {NoToken} : authMiddleware(token)
  \/ \E token \in Tokens \cup {NoToken} : AuthCheck(token)
  \/ TickHalfDay

SpecSessions == Init /\ [][NextSessions]_vars

(***************************************************************************)
(* getDatabase, initialize and logActivity, by the callers of two          *)
(* processes on one file                                                   *)
(***************************************************************************)

(* getDatabase up to its await: the first caller of a process creates the  *)
(* singleton and waits inside initialize for initSqlJs; a caller that      *)
(* finds instance set is handed it as it is                                *)
GetDatabase(g, p) ==
  /\ getters[g].pc = "idle"
  /\ IF ~instance[p].created
     THEN /\ instance' = [instance EXCEPT ![p] = NewInstance]
          /\ getters' = [getters EXCEPT ![g] =
                           [proc |-> p, pc |-> "initSqlJs", ready |-> FALSE]]
     ELSE /\ instance' = instance
          /\ getters' = [getters EXCEPT ![g] =
                           [proc |-> p, pc |-> "has", ready |-> instance[p].initialized]]
  /\ UNCHANGED <<activity, now, Pipeline, Limiter, Web, Agent>>

(* initialize after initSqlJs: the file is read into memory, the schema    *)
(* run, the file written back, initialized set; getDatabase returns        *)
Initialize(g) ==
  LET p == getters[g].proc
  IN  /\ getters[g].pc = "initSqlJs"
      /\ instance' = [instance EXCEPT ![p] =
                        [@ EXCEPT !.db = activity, !.initialized = TRUE,
                                  !.inits = @ + 1]]
      /\ activity' = activity
      /\ getters' = [getters EXCEPT ![g] = [@ EXCEPT !.pc = "has", !.ready = TRUE]]
      /\ UNCHANGED <<now, Pipeline, Limiter, Web, Agent>>

(* the record a unit's completion writes: who wrote it, and its rowid *)
ActivityRow(p, db) == [agent |-> p, id |-> Len(db) + 1]

(* logActivity on the singleton a caller holds: INSERT INTO activity_log   *)
(* on the copy in memory, then save() writes the whole copy over the file  *)
logActivity(p) ==
  LET db == Append(instance[p].db, ActivityRow(p, instance[p].db))
  IN  /\ instance' = [instance EXCEPT ![p] = [@ EXCEPT !.db = db]]
      /\ activity' = db

(* a unit of a caller completes and logs; on a singleton whose db is still *)
(* null the INSERT throws                                                  *)
LogActivity(g) ==
  LET p == getters[g].proc
  IN  /\ getters[g].pc = "has"
      /\ Len(instance[p].db) < MaxLog
      /\ IF instance[p].initialized
         THEN logActivity(p) /\ getters' = getters
         ELSE /\ getters' = [getters EXCEPT ![g] = [@ EXCEPT !.pc = "threw"]]
              /\ UNCHANGED <<activity, instance>>
      /\ UNCHANGED <<now, Pipeline, Limiter, Web, Agent>>

(* the command of index.js ends: its process and its singleton are gone *)
Exit ==
  /\ instance["cli"].created
  /\ \A g \in GetterIds : getters[g].proc = "cli" => getters[g].pc # "initSqlJs"
  /\ instance' = [instance EXCEPT !["cli"] = NoInstance]
  /\ getters' = [g \in GetterIds |->
                   IF getters[g].proc = "cli" THEN IdleGetter ELSE getters[g]]
  /\ UNCHANGED <<activity, now, Pipeline, Limiter, Web, Agent>>

NextStore ==
  \/ \E g \in GetterIds, p \in Processes : GetDatabase(g, p)
  \/ \E g \in GetterIds : Initialize(g)
  \/ \E g \in GetterIds : LogActivity(g)
  \/ Exit

SpecStore == Init /\ [][NextStore]_vars

(***************************************************************************)
(* BaseAgent.chat: the calls made on one agent of the registry by the      *)
(* units of the server's process, whose store is open.                     *)
(***************************************************************************)
InitAgent ==
  /\ discoveries = <<>>
  /\ hypotheses = <<>>
  /\ validations = <<>>
  /\ projects = <<>>
  /\ reviews = <<>>
  /\ tasks = [t \in TaskIds |-> IdleTask]
  /\ now = StartMs
  /\ lastRequest = [c \in Connectors |-> 0]
  /\ sent = [c \in Connectors |-> <<>>]
  /\ callers = [c \in Connectors |-> [k \in CallerIds |-> IdleCaller]]
  /\ sessions = {}
  /\ answer = NoAnswer
  /\ conversationHistory = <<>>
  /\ chats = [k \in ChatIds |-> IdleChat]
  /\ requests = <<>>
  /\ activity = <<>>
  /\ instance = [p \in Processes |->
                   IF p = "server"
                   THEN [NewInstance EXCEPT !.initialized = TRUE, !.inits = 1]
                   ELSE NoInstance]
  /\ getters = [g \in GetterIds |-> IdleGetter]

(* chat is called for a unit and awaits buildSystemPrompt *)
ChatCalled(k, u) ==
  /\ chats[k].pc = "idle"
  /\ Len(requests) + Cardinality({j \in ChatIds : chats[j].pc = "prompt"})
       < MaxRequestsSent
  /\ chats' = [chats EXCEPT ![k] = [pc |-> "prompt", unit |-> u]]
  /\ UNCHANGED <<conversationHistory, requests, now, Pipeline, Limiter, Web, Store>>

(* the user message is pushed and messages.create is called with the      *)
(* whole conversationHistory                                               *)
ChatSends(k) ==
  LET history == Append(conversationHistory,
                        [role |-> "user", content |-> chats[k].unit])
  IN  /\ chats[k].pc = "prompt"
      /\ conversationHistory' = history
      /\ requests' = Append(requests, [unit |-> chats[k].unit, messages |-> history])
      /\ chats' = [chats EXCEPT ![k] = [@ EXCEPT !.pc = "create"]]
      /\ UNCHANGED <<now, Pipeline, Limiter, Web, Store>>

(* the reply arrives: the assistant message is pushed, chat awaits ensureDb *)
ChatReplied(k) ==
  /\ chats[k].pc = "create"
  /\ conversationHistory' = Append(conversationHistory,
                                   [role |-> "assistant", content |-> chats[k].unit])
  /\ chats' = [chats EXCEPT ![k] = [@ EXCEPT !.pc = "ensureDb"]]
  /\ UNCHANGED <<requests, now, Pipeline, Limiter, Web, Store>>

(* messages.create throws: chat has no catch, the call ends there *)
ChatThrows(k) ==
  /\ chats[k].pc = "create"
  /\ chats' = [chats EXCEPT ![k] = IdleChat]
  /\ UNCHANGED <<conversationHistory, requests, now, Pipeline, Limiter, Web, Store>>

(* the chat is logged and the reply returned *)
ChatLogged(k) ==
  /\ chats[k].pc = "ensureDb"
  /\ logActivity("server")
  /\ chats' = [chats EXCEPT ![k] = IdleChat]
  /\ UNCHANGED <<conversationHistory, requests, getters, now, Pipeline, Limiter, Web>>

NextAgent ==
  \/ \E k \in ChatIds, u \in Units : ChatCalled(k, u)
  \/ \E k \in ChatIds : ChatSends(k)
  \/ \E k \in ChatIds : ChatReplied(k)
  \/ \E k \in ChatIds : ChatThrows(k)
  \/ \E k \in ChatIds : ChatLogged(k)

SpecAgent == InitAgent /\ [][NextAgent]_vars

(***************************************************************************)
(* generateHypotheses descriptor by descriptor (agents/oracle.js): the     *)
(* hypothesis command over replies whose descriptors may lack a title or a *)
(* statement (Null) or carry an empty one.                                 *)
(***************************************************************************)
MaxDescriptors == 2

Texts == {"H", "", Null}
Descriptors == [title : Texts, statement : Texts]
DescriptorLists == UNION {[1..n -> Descriptors] : n \in 0..MaxDescriptors}

(* INSERT INTO hypotheses with the descriptor's title and statement: both  *)
(* columns are NOT NULL, status takes the column default                   *)
insertHypothesisRow(rows, discovery_id, hyp) ==
  IF hyp.title = Null \/ hyp.statement = Null
  THEN [threw |-> TRUE, rows |-> rows]
  ELSE [threw |-> FALSE,
        rows |-> Append(rows, [discovery_id |-> discovery_id, status |-> "generated",
                               title |-> hyp.title, statement |-> hyp.statement])]

(* the loop of generateHypotheses: one insert for each descriptor, as it   *)
(* came; an insert that throws ends the loop, the rows before it stay      *)
RECURSIVE saveHypotheses(_, _, _)
saveHypotheses(rows, discovery_id, list) ==
  IF list = <<>> THEN [threw |-> FALSE, rows |-> rows]
  ELSE LET out == insertHypothesisRow(rows, discovery_id, Head(list))
       IN  IF out.threw THEN out
           ELSE saveHypotheses(out.rows, discovery_id, Tail(list))

(* OracleAgent.generateHypotheses returns to its caller, or throws *)
GenerateDescriptors(t) ==
  LET tk == tasks[t]
      d == Head(tk.todoD)
  IN  /\ tk.pc = "gen_chat"
      /\ \E list \in DescriptorLists :
           LET out == saveHypotheses(hypotheses, d, list)
               newIds == [i \in 1..(Len(out.rows) - Len(hypotheses)) |->
                           Len(hypotheses) + i]
           IN  /\ Len(out.rows) <= MaxHyp
               /\ IF out.threw THEN Apply(t, Thrown(tk, discoveries, out.rows))
                  ELSE Apply(t, AfterGenerate(tk, newIds, discoveries, out.rows))
      /\ UNCHANGED <<validations, projects, reviews, aside>>

NextGeneration ==
  \/ ScoutSearch(ScoringItems)
  \/ \E t \in TaskIds :
       \/ StartStageTriage(t)
       \/ ScoreChat(t, RunTotals)
       \/ StartStageHypothesis(t)
       \/ GenerateDescriptors(t)

SpecGeneration == Init /\ [][NextGeneration]_vars

(***************************************************************************)
(* Properties.                                                             *)
(***************************************************************************)

(* the order generated < validating < validated/rejected < planned *)
Rank(status) ==
  CASE status = "generated" -> 0
    [] status = "validating" -> 1
    [] status = "validated" -> 2
    [] status = "rejected" -> 2
    [] status = "project" -> 3

Last(s) == s[Len(s)]

AppendsOne(old, new) == Len(new) = Len(old) + 1

(* C1: over validate, re-validate, plan and validate-route operations, no *)
(* step lowers the persisted status of a hypothesis in the order           *)
(* generated < validating < validated/rejected < planned.                  *)
C1_StatusNeverDecreases ==
  [][\A i \in 1..Len(hypotheses) :
       Rank(hypotheses'[i].status) >= Rank(hypotheses[i].status)]_vars

(* C2: when the chat inside validateHypothesis throws, the hypothesis     *)
(* keeps the status it had and no validation is persisted: the function    *)
(* leaves both tables as they were, and a caller that answers with an      *)
(* error has changed neither.                                              *)
C2_ThrowChangesNothing ==
  [][\A t \in TaskIds :
       tasks[t].pc = "val_chat" =>
         LET h == Head(tasks[t].todoH)
             out == validateHypothesis(hypotheses, validations, h,
                                       [form |-> "throws", body |-> NullBody])
         IN  /\ out.hyps[h].status = hypotheses[h].status
             /\ out.vals = validations
             /\ tasks'[t].result = "error" =>
                  /\ hypotheses'[h].status = hypotheses[h].status
                  /\ validations' = validations]_vars

(* C2, reached: the validate route answered with an error for a           *)
(* hypothesis that has no validation and is still generated                *)
C2_RouteFailedInValidation ==
  \E t \in TaskIds :
    /\ tasks[t].last = "validateRoute"
    /\ tasks[t].result = "error"
    /\ hypotheses[Head(tasks[t].todoH)].status = "generated"
    /\ \A i \in 1..Len(validations) :
         validations[i].hypothesis_id # Head(tasks[t].todoH)

(* C3: the status a validation leaves is decided by its recommendation:   *)
(* reject leaves rejected, needs_more_research leaves validating, pursue   *)
(* and modify leave the hypothesis open to planning; and no step moves a   *)
(* hypothesis out of rejected.                                             *)
C3_RecommendationDecidesStatus ==
  [][/\ \A i \in 1..Len(hypotheses) :
          hypotheses[i].status = "rejected" => hypotheses'[i].status = "rejected"
     /\ AppendsOne(validations, validations') =>
          LET v == Last(validations')
              status == hypotheses'[v.hypothesis_id].status
          IN  /\ v.recommendation = "reject" => status = "rejected"
              /\ v.recommendation = "needs_more_research" => status = "validating"
              /\ v.recommendation \in {"pursue", "modify"} => status # "rejected"]_vars

(* C4: a step that sets a hypothesis to validated or rejected is a step   *)
(* of validateHypothesis that persists a validation of that hypothesis,    *)
(* and a step that sets it to planned is a step of designProject that      *)
(* persists a project of that hypothesis.                                  *)
C4_OnlyStagesWriteStatus ==
  [][\A i \in 1..Len(hypotheses) :
       hypotheses'[i].status # hypotheses[i].status =>
         /\ hypotheses'[i].status \in {"validated", "rejected"} =>
              /\ AppendsOne(validations, validations')
              /\ Last(validations').hypothesis_id = i
         /\ hypotheses'[i].status = "project" =>
              /\ AppendsOne(projects, projects')
              /\ Last(projects').hypothesis_id = i]_vars

(* C5: for each of the four dispositions, reviewProject persists one      *)
(* review of the project and sets that project's status, and no other, to  *)
(* proceed->approved, revise->revision_needed, pause->paused,              *)
(* abandon->rejected.                                                      *)
C5_DispositionMapping ==
  \A t \in TaskIds :
    tasks[t].pc = "rev_chat" =>
      \A form \in {"fenced", "bare"}, a \in Assessments :
        LET p == Head(tasks[t].todoP).project
            out == reviewProject(projects, reviews, p,
                     [form |-> form,
                      body |-> [json |-> "object", overall_assessment |-> a]])
            status == CASE a = "proceed" -> "approved"
                        [] a = "revise" -> "revision_needed"
                        [] a = "pause" -> "paused"
                        [] a = "abandon" -> "rejected"
        IN  /\ out.revs = Append(reviews, [project_id |-> p, overall_assessment |-> a])
            /\ out.projs = [projects EXCEPT ![p].status = status]

(* C5, reached: a review that says pause is persisted and its project is  *)
(* paused                                                                  *)
C5_PausedByReview ==
  \E i \in 1..Len(reviews) :
    /\ reviews[i].overall_assessment = "pause"
    /\ projects[reviews[i].project_id].status = "paused"

(* C6: a disposition outside proceed, revise, pause, abandon is not       *)
(* accepted: no review is persisted with such a disposition.               *)
C6_NoReviewOutsideEnum ==
  \A i \in 1..Len(reviews) : reviews[i].overall_assessment \in Assessments

(* C7: every persisted project's status is one of drafted, approved,      *)
(* revision_needed, paused, rejected.                                      *)
C7_PlanStatusInEnum ==
  \A p \in 1..Len(projects) :
    projects[p].status \in {"drafted", "approved", "revision_needed", "paused", "rejected"}

(* C8: designProject is only ever called with a persisted validation      *)
(* whose recommendation is pursue or modify, and every project was         *)
(* persisted, with its hypothesis set to planned, on such a validation.    *)
C8_PlannedOnlyOnPursueOrModify ==
  /\ \A t \in TaskIds :
       tasks[t].pc \in {"des_chat", "des_vs"} =>
         LET v == Head(tasks[t].todoV)
         IN  /\ v.recommendation \in {"pursue", "modify"}
             /\ \E i \in 1..Len(validations) :
                  /\ validations[i].hypothesis_id = v.hypothesis
                  /\ validations[i].recommendation = v.recommendation
  /\ \A p \in 1..Len(projects) : projects[p].basis \in {"pursue", "modify"}

(* C8, reached: a full run has persisted a project on a modify validation *)
(* while another validation of the run says reject                         *)
C8_RunPlannedAfterModify ==
  \E t \in TaskIds :
    /\ tasks[t].kind = "fullRun"
    /\ tasks[t].pc = "des_vs"
    /\ projects[tasks[t].proj].basis = "modify"
    /\ \E k \in 1..Len(tasks[t].vals) : tasks[t].vals[k].recommendation = "reject"

(* C9: no two stored discoveries are the same item, by provider and       *)
(* provider id or by normalised title.                                     *)
C9_OneRowPerItem ==
  \A i, j \in 1..Len(discoveries) :
    i # j =>
      /\ ~(/\ discoveries[i].source = discoveries[j].source
           /\ discoveries[i].external_id = discoveries[j].external_id)
      /\ normalizedTitle(discoveries[i].title) # normalizedTitle(discoveries[j].title)

C11_BucketFromTotal ==
  \A i \in 1..Len(discoveries) :
    discoveries[i].relevance_score # NoScore =>
      LET total == discoveries[i].relevance_score[1]
      IN  /\ total <= 100
          /\ discoveries[i].priority = "high" <=> total >= 70
          /\ discoveries[i].priority = "medium" <=> (40 <= total /\ total <= 69)
          /\ discoveries[i].priority = "low" <=> total <= 39

(* C12: whenever a batch waits for its reply, a reply that cannot be      *)
(* parsed or has no scores leaves every row as it is, and scoring the     *)
(* batch a second time with the same reply changes nothing more.           *)
C12_AllOrNothingAndIdempotent ==
  \A t \in TaskIds :
    tasks[t].pc = "score_chat" =>
      \A r \in ChatResults(ScorePayloads(Totals)) :
        LET scores == scoresOf(parseJsonResponse(r))
            once == scoreDiscoveries(discoveries, tasks[t].found, scores)
        IN  /\ (~Truthy(parseJsonResponse(r))) => once = discoveries
            /\ scoreDiscoveries(once, tasks[t].found, scores) = once

(* C12, reached: a batch that holds a discovery scored before waits for   *)
(* its reply                                                               *)
C12_ScoredBatchScoredAgain ==
  \E t \in TaskIds :
    /\ tasks[t].pc = "score_chat"
    /\ \E i \in Range(tasks[t].found) : discoveries[i].relevance_score # NoScore

(* the stage of runFullPipeline an invocation is suspended in *)
StageOf(pc) ==
  CASE pc = "discovery" -> 1
    [] pc = "score_chat" -> 2
    [] pc = "gen_chat" -> 3
    [] pc \in {"val_chat", "val_vs"} -> 4
    [] pc \in {"des_chat", "des_vs"} -> 5
    [] pc = "rev_chat" -> 6

(* C13: a full run never goes back to an earlier stage, and when it moves *)
(* to a later stage the unit it was on was the last unit of its stage and *)
(* what the stage hands on is in the tables: the found discoveries, the   *)
(* generated hypotheses, the validations, the projects.                    *)
C13_StagesInOrder ==
  [][\A t \in TaskIds :
       (tasks[t].kind = "fullRun" /\ tasks'[t].kind = "fullRun") =>
         LET tk == tasks[t]
             a == StageOf(tk.pc)
             b == StageOf(tasks'[t].pc)
         IN  /\ a <= b
             /\ a < b =>
                  /\ a = 2 => Len(tk.found) <= 10
                  /\ a = 3 => \A k \in 2..Len(tk.todoD) : tk.todoD[k] \notin 1..Len(discoveries)
                  /\ a = 4 => Len(tk.todoH) = 1
                  /\ a = 5 => Len(tk.todoV) = 1
                  /\ \A i \in Range(tasks'[t].found) : i \in 1..Len(discoveries')
                  /\ \A h \in Range(tasks'[t].allHyps) : h \in 1..Len(hypotheses')
                  /\ \A v \in Range(tasks'[t].vals) :
                       \E k \in 1..Len(validations') :
                         /\ validations'[k].hypothesis_id = v.hypothesis
                         /\ validations'[k].recommendation = v.recommendation
                  /\ \A p \in Range(tasks'[t].projs) :
                       /\ p.project \in 1..Len(projects')
                       /\ projects'[p.project].hypothesis_id = p.hypothesis]_vars

(* C13, reached: a full run's design stage starts with the validations of *)
(* two hypotheses finished and stored                                      *)
C13_DesignAfterTwoValidations ==
  \E t \in TaskIds :
    /\ tasks[t].kind = "fullRun"
    /\ tasks[t].pc = "des_chat"
    /\ Len(tasks[t].vals) = 2
    /\ Len(validations) >= 2

(* C14: when a run or a route leaves scoring without an error, the        *)
(* discoveries it starts generation for are discoveries of the run stored *)
(* as high or medium, as many of them as there are up to 5, and none left *)
(* out has a higher score than one taken.                                  *)
C14_GenerationForTopK ==
  [][\A t \in TaskIds :
       (/\ tasks[t].pc = "score_chat"
        /\ tasks[t].kind \in {"fullRun", "pipelineRoute", "generateRoute"}
        /\ tasks'[t].pc # "score_chat"
        /\ tasks'[t].result # "error") =>
         LET run == Range(tasks[t].found)
                      \cup {tasks[t].scored[k].discovery_id : k \in 1..Len(tasks[t].scored)}
             eligible == {i \in run \cap (1..Len(discoveries')) :
                            discoveries'[i].priority \in {"high", "medium"}}
             started == IF tasks'[t].pc = "gen_chat" THEN Range(tasks'[t].todoD) ELSE {}
             score(i) == IF discoveries'[i].relevance_score = NoScore THEN 0
                         ELSE discoveries'[i].relevance_score[1]
         IN  /\ started \subseteq eligible
             /\ Cardinality(started) = Min(5, Cardinality(eligible))
             /\ \A i \in started : \A j \in eligible \ started : score(i) >= score(j)]_vars

(* C15: a full run that still has a unit of its stage to process, or a    *)
(* unit for a later stage, is not ended by the reply to the unit it is on: *)
(* whatever the call does, the run goes on.                                *)
C15_FailureIsolated ==
  [][\A t \in TaskIds :
       LET tk == tasks[t]
           pending ==
             \/ tk.pc = "gen_chat" /\ \E k \in 2..Len(tk.todoD) : tk.todoD[k] \in 1..Len(discoveries)
             \/ tk.pc = "gen_chat" /\ tk.allHyps # <<>>
             \/ tk.pc = "val_chat" /\ Len(tk.todoH) >= 2
             \/ tk.pc = "val_chat" /\ \E k \in 1..Len(tk.vals) : pursuable(tk.vals[k].recommendation)
             \/ tk.pc = "des_chat" /\ Len(tk.todoV) >= 2
             \/ tk.pc = "des_chat" /\ tk.projs # <<>>
             \/ tk.pc = "rev_chat" /\ Len(tk.todoP) >= 2
       IN  (tk.kind = "fullRun" /\ pending /\ tasks'[t] # tk) => tasks'[t].kind = "fullRun"]_vars

(* C16: when a full run ends, the summary it returns holds every          *)
(* hypothesis, validation and project the run had produced up to then.     *)
C16_SummaryAccountsForWork ==
  [][\A t \in TaskIds :
       (tasks[t].kind = "fullRun" /\ tasks'[t].kind = "idle") =>
         /\ tasks'[t].last = "fullRun"
         /\ Range(tasks[t].allHyps) \subseteq Range(tasks'[t].allHyps)
         /\ Range(tasks[t].vals) \subseteq Range(tasks'[t].vals)
         /\ Range(tasks[t].projs) \subseteq Range(tasks'[t].projs)]_vars

(* an item is stored: a row has its provider and provider id, or its title *)
Stored(rows, item) ==
  \E i \in 1..Len(rows) :
    \/ rows[i].source = item.source /\ rows[i].external_id = item.external_id
    \/ normalizedTitle(rows[i].title) = normalizedTitle(item.title)

(* C17: no provider's outcome ends a search: the invocation goes on (or   *)
(* ends without an error), the results collected from the providers asked *)
(* before are kept while the search lasts, and when a search of the       *)
(* discovery stage is over every one of them is stored and handed on.      *)
C17_SearchSurvivesProviderFailure ==
  [][\A t \in TaskIds :
       LET tk == tasks[t]
       IN  (tk.pc \in {"search", "scan", "evidence"} /\ tasks'[t] # tk) =>
             /\ tasks'[t].result # "error"
             /\ tasks'[t].kind = "idle" => tk.results = <<>>
             /\ tasks'[t].pc = tk.pc =>
                  /\ Len(tasks'[t].pending) = Len(tk.pending) - 1
                  /\ SubSeq(tasks'[t].results, 1, Len(tk.results)) = tk.results
             /\ tk.pc = "evidence" => tasks'[t].pc \in {"evidence", "val_chat"}
             /\ (tk.pc # "evidence" /\ tasks'[t].pc # tk.pc /\ tk.results # <<>>) =>
                  /\ tasks'[t].pc = "score_chat"
                  /\ tasks'[t].found # <<>>
                  /\ \A k \in 1..Len(tk.results) : Stored(discoveries', tk.results[k])]_vars

(* C17, reached: in a search of the discovery stage one provider has      *)
(* failed, another has returned a result, and a provider is still to come *)
C17_OneFailedOneReturned ==
  \E t \in TaskIds :
    /\ tasks[t].kind = "fullRun"
    /\ tasks[t].pc \in {"search", "scan"}
    /\ tasks[t].errors # <<>>
    /\ tasks[t].results # <<>>
    /\ tasks[t].pending # <<>>

(* C18: a provider failure recorded during a run's discovery stage stays  *)
(* recorded, once, for as long as the run lasts and in what it returns.    *)
C18_ConnectorErrorsReported ==
  [][\A t \in TaskIds :
       (tasks[t].kind = "fullRun" /\ tasks'[t].kind \in {"fullRun", "idle"}) =>
         \A source \in Range(tasks[t].errors) :
           Cardinality({k \in 1..Len(tasks'[t].errors) : tasks'[t].errors[k] = source}) = 1]_vars

(* C19: the validation the store returns for a hypothesis is the one      *)
(* created last for it, and the review it returns for a project is the    *)
(* one created last for it.                                                *)
C19_CurrentIsLatest ==
  /\ \A h \in 1..Len(hypotheses) :
       \A i \in 1..Len(validations) :
         validations[i].hypothesis_id = h => getValidationByHypothesis(validations, h) >= i
  /\ \A p \in 1..Len(projects) :
       \A i \in 1..Len(reviews) :
         reviews[i].project_id = p => getReviewByProject(reviews, p) >= i

(* an invocation of validateHypothesis for hypothesis h is in flight *)
Inside(tk, h) ==
  /\ tk.pc \in {"val_chat", "val_vs"}
  /\ Head(tk.todoH) = h

(* C20: when validateHypothesis returns a validation to its caller, no    *)
(* other invocation for the hypothesis is in flight, and a validation of  *)
(* the hypothesis was stored after this invocation's (another invocation  *)
(* wrote while this one was in flight, and returned before it), both      *)
(* validations are stored and the status of the hypothesis is the one     *)
(* this invocation, the last to return, wrote.                             *)
C20_LastCompleterWins ==
  [][\A u \in DOMAIN tasks :
       LET tk == tasks[u]
           h == Head(tk.todoH)
           mine == {i \in 1..Len(validations) : validations[i].hypothesis_id = h}
       IN  (/\ tk.pc = "val_vs"
            /\ tasks'[u].pc # "val_vs"
            /\ \A t \in DOMAIN tasks \ {u} : ~Inside(tasks[t], h)
            /\ Cardinality(mine) = 2
            /\ \E i, j \in mine :
                 /\ i < j
                 /\ validations[i].recommendation = tk.rec
                 /\ validations[j].recommendation # tk.rec) =>
             hypotheses[h].status = newStatus(tk.rec)]_vars

(* C21: any two consecutive outgoing requests of one connector are at      *)
(* least its minimum interval apart (350 ms PubMed, 1000 ms Semantic       *)
(* Scholar), whatever the interleaving of its callers.                     *)
C21_RequestsSpaced ==
  \A c \in Connectors :
    \A i \in 1..(Len(sent[c]) - 1) :
      sent[c][i + 1] - sent[c][i] >= RATE_LIMIT_MS(c)
(* a full run that has returned {success: true, ...} *)
Summary(t) ==
  tasks[t].kind = "idle" /\ tasks[t].last = "fullRun" /\ tasks[t].result = "ok"

(* the project's review of the run asked to proceed *)
Proceeds(p) ==
  \E r \in 1..Len(reviews) :
    reviews[r].project_id = p /\ reviews[r].overall_assessment = "proceed"

C23_GeneratedPickedUp ==
  \A t \in TaskIds :
    Summary(t) =>
      \A h \in 1..Len(hypotheses) :
        hypotheses[h].status = "generated" => h \in Range(tasks[t].allHyps)
(* C24: a token issued by a login more than 24 hours ago is accepted       *)
(* neither by the auth middleware on a protected /api/ route nor by        *)
(* /api/auth/check: an answer that accepts a token is given at most a day  *)
(* after the token's time of issue.                                        *)
C24_SessionsExpire ==
  (answer.route \in {"api", "check"} /\ answer.ok) =>
    answer.at - answer.token[1] <= DayMs
(* C25: the activity log only grows and is in the order of completion: a   *)
(* step leaves the log as it is or puts the record of the unit that        *)
(* completes in this step after all the records written before, which are  *)
(* all still there, unchanged.                                             *)
C25_LogOnlyGrows ==
  [][\/ activity' = activity
     \/ /\ AppendsOne(activity, activity')
        /\ SubSeq(activity', 1, Len(activity)) = activity]_vars
(* C30: whatever the interleaving of the getDatabase callers of a process, *)
(* a caller is handed the singleton only after initialize has completed on *)
(* it (db loaded, schema applied), and initialize runs at most once.       *)
C30_HandedOutInitialized ==
  /\ \A g \in GetterIds : getters[g].pc = "has" => getters[g].ready
  /\ \A p \in Processes : instance[p].inits <= 1
(* C26: the messages sent to the generative model for a unit depend on the *)
(* unit only: two requests for the same unit carry the same messages,      *)
(* whatever the agent has processed in between.                            *)
C26_RequestDependsOnUnit ==
  \A i, j \in 1..Len(requests) :
    requests[i].unit = requests[j].unit =>
      requests[i].messages = requests[j].messages

(* user, assistant, user, ... from the first message on *)
Alternates(messages) ==
  \A i \in 1..Len(messages) :
    messages[i].role = IF i % 2 = 1 THEN "user" ELSE "assistant"

(* C29: after any chat calls on one agent, failed and overlapping ones     *)
(* included, conversationHistory alternates user, assistant, user, ...     *)
(* from a user message on, and every request sent ends with the one user   *)
(* message that has no reply yet.                                          *)
C29_HistoryAlternates ==
  /\ Alternates(conversationHistory)
  /\ \A i \in 1..Len(requests) :
       /\ Alternates(requests[i].messages)
       /\ Len(requests[i].messages) % 2 = 1
(* C27: a reply to validateHypothesis that is no validation (not JSON, or  *)
(* a recommendation outside pursue, modify, reject, needs_more_research)   *)
(* is not persisted: the step that takes the reply either stores a         *)
(* validation whose recommendation is one of the four, or leaves the       *)
(* validations and the hypothesis's status as they were.                   *)
C27_MalformedNotPersisted ==
  [][\A t \in TaskIds :
       (tasks[t].pc = "val_chat" /\ tasks'[t] # tasks[t]) =>
         \/ /\ AppendsOne(validations, validations')
            /\ Last(validations').recommendation \in Recommendations
         \/ /\ validations' = validations
            /\ hypotheses' = hypotheses]_vars
(* C28: generation is best-effort per descriptor: the step in which        *)
(* generateHypotheses takes the reply does not fail, and every hypothesis  *)
(* it persists came from a descriptor with a non-empty title and           *)
(* statement, has status generated and belongs to the input discovery.     *)
C28_GenerationBestEffort ==
  [][\A t \in TaskIds :
       (tasks[t].pc = "gen_chat" /\ tasks'[t] # tasks[t]) =>
         /\ tasks'[t].result # "error"
         /\ \A h \in (Len(hypotheses) + 1)..Len(hypotheses') :
              /\ hypotheses'[h].title \notin {"", Null}
              /\ hypotheses'[h].statement \notin {"", Null}
              /\ hypotheses'[h].status = "generated"
              /\ hypotheses'[h].discovery_id = Head(tasks[t].todoD)]_vars
=============================================================================
